---- MODULE Spec2Model ----
(***************************************************************************)
(* Model of the metrics core of the survey-data pipeline:                  *)
(*   insights_engine/generate_insights.py  (generate_insights and its      *)
(*       three metric functions)                                           *)
(*   data_processing/bias_checks.py        (check_for_bias)                *)
(* Every function is a pure function of its arguments.  A behaviour is one *)
(* invocation: Init draws the function and its arguments from bounded      *)
(* sets, the function's action applies it and stores the outcome.          *)
(*                                                                         *)
(* Numbers.  Column values are integers.  A float computed by the code is  *)
(* kept as the exact ratio [num, den] it is the rounding of; den = 0 is    *)
(* NaN (the mean or max of no values).  Comparisons with NaN are false and *)
(* arithmetic on NaN gives NaN, as in IEEE-754.                            *)
(***************************************************************************)
EXTENDS Integers, Sequences, FiniteSets, TLC

VARIABLES fn, df, args, pc, result, ran

vars == <<fn, df, args, pc, result, ran>>

\* Bounds of the model.
MaxRows == 3
MaxVal == 2
MaxRowsGI == 2
MaxCells == 1
MaxRowsPre == 2

---------------------------------------------------------------------------
\* Floats as exact ratios.

Frac(n, d) == [num |-> n, den |-> d]

Zero == Frac(0, 1)

One == Frac(1, 1)

Half == Frac(1, 2)

NaN == Frac(0, 0)

IsNaN(q) == q.den = 0

\* Denominators are kept positive.
FracNorm(q) == IF q.den < 0 THEN Frac(0 - q.num, 0 - q.den) ELSE q

FracEq(a, b) == ~IsNaN(a) /\ ~IsNaN(b) /\ a.num * b.den = b.num * a.den

FracLt(a, b) == ~IsNaN(a) /\ ~IsNaN(b) /\ a.num * b.den < b.num * a.den

FracLe(a, b) == ~IsNaN(a) /\ ~IsNaN(b) /\ a.num * b.den <= b.num * a.den

FracGt(a, b) == FracLt(b, a)

FracAdd(a, b) ==
    IF IsNaN(a) \/ IsNaN(b) THEN NaN
    ELSE Frac(a.num * b.den + b.num * a.den, a.den * b.den)

FracSub(a, b) ==
    IF IsNaN(a) \/ IsNaN(b) THEN NaN
    ELSE Frac(a.num * b.den - b.num * a.den, a.den * b.den)

FracAbs(a) == IF a.num < 0 THEN Frac(0 - a.num, a.den) ELSE a

FracScale(a, k) == IF IsNaN(a) THEN NaN ELSE Frac(a.num * k, a.den)

\* a / b for b # 0.
FracDiv(a, b) ==
    IF IsNaN(a) \/ IsNaN(b) THEN NaN
    ELSE FracNorm(Frac(a.num * b.den, a.den * b.num))

---------------------------------------------------------------------------
\* Sequences of integers: a column, or a column restricted by a mask.

Range(s) == {s[i] : i \in DOMAIN s}

RECURSIVE SumTo(_, _)
SumTo(s, k) == IF k = 0 THEN 0 ELSE s[k] + SumTo(s, k - 1)

Sum(s) == SumTo(s, Len(s))

RECURSIVE SumSqTo(_, _)
SumSqTo(s, k) == IF k = 0 THEN 0 ELSE s[k] * s[k] + SumSqTo(s, k - 1)

\* Series.mean(): NaN for no values.
Mean(s) == Frac(Sum(s), Len(s))

\* Series.max(): NaN for no values.
Max(s) ==
    IF Len(s) = 0 THEN NaN
    ELSE Frac(CHOOSE v \in Range(s) : \A w \in Range(s) : w <= v, 1)

\* The k-th smallest value of s, 1 <= k <= Len(s).
Kth(s, k) ==
    CHOOSE v \in Range(s) :
        /\ Cardinality({i \in DOMAIN s : s[i] < v}) < k
        /\ k <= Cardinality({i \in DOMAIN s : s[i] <= v})

\* Series.median(): NaN for no values.
Median(s) ==
    LET n == Len(s) IN
    IF n = 0 THEN NaN
    ELSE IF n % 2 = 1 THEN Frac(Kth(s, (n + 1) \div 2), 1)
    ELSE Frac(Kth(s, n \div 2) + Kth(s, n \div 2 + 1), 2)

\* Series.std() is the square root of the sample variance (ddof = 1), NaN for
\* fewer than two values; the root is kept symbolic.
Std(s) ==
    LET n == Len(s) IN
    [sqrt_of |-> IF n < 2 THEN NaN
                 ELSE Frac(n * SumSqTo(s, n) - Sum(s) * Sum(s), n * (n - 1))]

\* s[mask]: the values of s at the rows where mask holds, in row order.
RECURSIVE SelectTo(_, _, _)
SelectTo(s, mask, k) ==
    IF k = 0 THEN <<>>
    ELSE IF mask[k] THEN Append(SelectTo(s, mask, k - 1), s[k])
    ELSE SelectTo(s, mask, k - 1)

Select(s, mask) == SelectTo(s, mask, Len(s))

\* (column == v): the boolean mask of the rows whose value is v.
EqMask(s, v) == [i \in DOMAIN s |-> s[i] = v]

\* mask.sum()
MaskSum(mask) == Cardinality({i \in DOMAIN mask : mask[i]})

---------------------------------------------------------------------------
\* Python objects handed to the functions.  A DataFrame has n rows and the
\* columns DOMAIN col, each a sequence of n values.

Columns(d) == DOMAIN d.col

\* DataFrame.empty / Series.empty: true when any axis has length 0.
EmptyByRows(d) == d.n = 0

Empty(d) ==
    IF d.kind = "DataFrame" THEN d.n = 0 \/ Columns(d) = {} ELSE d.n = 0

\* Whether the object has an attribute `empty` at all.
HasEmptyAttr(d) == d.kind \in {"DataFrame", "Series"}

\* The values a column of the drawn tables may hold.
ColVals(c) ==
    CASE c = "credit_approved" -> {0, 1, 2}
      [] c = "loan_amount" -> 0..MaxVal
      [] c = "agriculture_output" -> (0 - MaxVal)..MaxVal
      [] c = "gender" -> {0, 1, 2}
      [] c = "decision_making" -> {2, 5}
      [] c = "is_leader" -> {0, 1}
      [] c = "outcome" -> {0, 1}

\* All tables of n rows whose columns are a subset of the names in cs.
RECURSIVE ColumnData(_, _)
ColumnData(cs, n) ==
    IF cs = <<>> THEN {<<>>}
    ELSE LET rest == ColumnData(Tail(cs), n) IN
         rest \cup {(Head(cs) :> s) @@ t : s \in [1..n -> ColVals(Head(cs))], t \in rest}

Tables(cs, maxn) ==
    UNION {{[kind |-> "DataFrame", n |-> n, col |-> c] : c \in ColumnData(cs, n)} :
           n \in 0..maxn}

---------------------------------------------------------------------------
\* Outcome of a call: a returned value, or a raised exception.

NoValue == [none |-> TRUE]

Returns(v) == [raised |-> "None", value |-> v]

\* An exception of type e whose str() is the parts of text joined.
Raises(e, text) == [raised |-> e, value |-> [str |-> text]]

\* Python's None.
PyNone == [none |-> TRUE]

NoArgs == [none |-> TRUE]

---------------------------------------------------------------------------
\* insights_engine/generate_insights.py

\* rejected_count = total_applications - approved_count
RejectedCountSwapped(total_applications, approved_count) ==
    approved_count - total_applications

RejectedCount(total_applications, approved_count) ==
    total_applications - approved_count

CreditMetrics(d) ==
    LET total_applications == d.n
        approved_mask == EqMask(d.col["credit_approved"], 1)
        approved_count == MaskSum(approved_mask)
        rejected_count == RejectedCount(total_applications, approved_count)
        approved_loans == Select(d.col["loan_amount"], approved_mask)
        average_loan == IF approved_count > 0 THEN Mean(approved_loans) ELSE Zero
    IN  [credit_approval_rate |->
             IF total_applications > 0
             THEN Frac(approved_count, total_applications) ELSE Zero,
         average_loan_amount |-> average_loan,
         total_applications |-> total_applications,
         total_approved |-> approved_count,
         total_rejected |-> rejected_count,
         rejection_rate |->
             IF total_applications > 0
             THEN Frac(rejected_count, total_applications) ELSE Zero]

\* The checks of the two required columns in the opposite order.
calculate_credit_access_metrics_swapped(d) ==
    IF "loan_amount" \notin Columns(d)
    THEN Returns([error |-> "loan_amount column not found"])
    ELSE IF "credit_approved" \notin Columns(d)
    THEN Returns([error |-> "credit_approved column not found"])
    ELSE Returns(CreditMetrics(d))

calculate_credit_access_metrics(d) ==
    IF "credit_approved" \notin Columns(d)
    THEN Returns([error |-> "credit_approved column not found"])
    ELSE IF "loan_amount" \notin Columns(d)
    THEN Returns([error |-> "loan_amount column not found"])
    ELSE Returns(CreditMetrics(d))

\* food_security_score = mean_output / max_output if max_output > 0 else 0.0
FoodSecurityScoreInverted(mean_output, max_output) ==
    IF FracGt(max_output, Zero)
    THEN (IF mean_output.num = 0 THEN NaN ELSE FracDiv(max_output, mean_output))
    ELSE Zero

FoodSecurityScore(mean_output, max_output) ==
    IF FracGt(max_output, Zero) THEN FracDiv(mean_output, max_output) ELSE Zero

analyze_agriculture_output(d) ==
    IF "agriculture_output" \notin Columns(d)
    THEN Returns([error |-> "agriculture_output column not found"])
    ELSE LET output_col == d.col["agriculture_output"]
             total_output == Frac(Sum(output_col), 1)
             mean_output == Mean(output_col)
             median_output == Median(output_col)
             std_output == Std(output_col)
             max_output == Max(output_col)
         IN  Returns([total_agriculture_output |-> total_output,
                      average_output_per_household |-> mean_output,
                      median_output_per_household |-> median_output,
                      output_std |-> std_output,
                      food_security_score |-> FoodSecurityScore(mean_output, max_output),
                      household_count |-> d.n])

\* gender_balance_score = 1.0 - abs(women_participation_rate - 0.5) * 2
GenderBalanceScoreUnscaled(women_participation_rate) ==
    FracSub(One, FracAbs(FracSub(women_participation_rate, Half)))

GenderBalanceScore(women_participation_rate) ==
    FracSub(One, FracScale(FracAbs(FracSub(women_participation_rate, Half)), 2))

\* The optional metrics computed whether or not there is any woman.
WomenOptionalUnguarded(d, women_mask, women_count) ==
    LET has(c) == c \in Columns(d)
        dm == IF has("decision_making")
              THEN ("women_decision_making_score" :>
                        Mean(Select(d.col["decision_making"], women_mask)))
              ELSE <<>>
        leader_count ==
            MaskSum(EqMask(Select(d.col["is_leader"], women_mask), 1))
        ld == IF has("is_leader")
              THEN ("women_leadership_rate" :>
                        (IF women_count > 0 THEN Frac(leader_count, women_count)
                         ELSE Zero)) @@
                   ("women_leaders_count" :> leader_count)
              ELSE <<>>
    IN  dm @@ ld

\* The optional metrics, computed when the women subset (with at least one
\* column) is not empty.
WomenOptional(d, women_mask, women_count) ==
    LET has(c) == c \in Columns(d)
        dm == IF has("decision_making")
              THEN ("women_decision_making_score" :>
                        Mean(Select(d.col["decision_making"], women_mask)))
              ELSE <<>>
        leader_count ==
            MaskSum(EqMask(Select(d.col["is_leader"], women_mask), 1))
        ld == IF has("is_leader")
              THEN ("women_leadership_rate" :>
                        (IF women_count > 0 THEN Frac(leader_count, women_count)
                         ELSE Zero)) @@
                   ("women_leaders_count" :> leader_count)
              ELSE <<>>
    IN  IF women_count > 0 THEN dm @@ ld ELSE <<>>

assess_women_inclusion(d) ==
    IF "gender" \notin Columns(d)
    THEN Returns([error |-> "gender column not found"])
    ELSE LET total_participants == d.n
             women_mask == EqMask(d.col["gender"], 0)
             women_count == MaskSum(women_mask)
             men_count == total_participants - women_count
             women_participation_rate ==
                 IF total_participants > 0
                 THEN Frac(women_count, total_participants) ELSE Zero
         IN  Returns(
                 [women_participation_rate |-> women_participation_rate,
                  total_women |-> women_count,
                  total_men |-> men_count,
                  total_participants |-> total_participants,
                  gender_balance_score |->
                      GenderBalanceScore(women_participation_rate)]
                 @@ WomenOptional(d, women_mask, women_count))

\* generate_insights giving up at the first metric group that reports an error.
generate_insights_failfast(d) ==
    IF ~HasEmptyAttr(d)
    THEN Raises("AttributeError", <<"'", d.kind, "' object has no attribute 'empty'">>)
    ELSE IF Empty(d)
    THEN Raises("ValueError", <<"Cannot generate insights from empty DataFrame">>)
    ELSE IF d.kind # "DataFrame"
    THEN Raises("TypeError", <<"Input must be a pandas DataFrame">>)
    ELSE LET credit == calculate_credit_access_metrics(d).value
             food == analyze_agriculture_output(d).value
             women == assess_women_inclusion(d).value
         IN  IF "error" \in DOMAIN credit THEN Returns([credit_access |-> credit])
             ELSE IF "error" \in DOMAIN food
             THEN Returns([credit_access |-> credit, food_security |-> food])
             ELSE Returns([credit_access |-> credit, food_security |-> food,
                           women_agency |-> women])

\* The value of the first outcome that raised, else the mapping of all three.
generate_insights(d) ==
    IF ~HasEmptyAttr(d)
    THEN Raises("AttributeError", <<"'", d.kind, "' object has no attribute 'empty'">>)
    ELSE IF Empty(d)
    THEN Raises("ValueError", <<"Cannot generate insights from empty DataFrame">>)
    ELSE IF d.kind # "DataFrame"
    THEN Raises("TypeError", <<"Input must be a pandas DataFrame">>)
    ELSE LET credit == calculate_credit_access_metrics(d)
             food == analyze_agriculture_output(d)
             women == assess_women_inclusion(d)
         IN  IF credit.raised # "None" THEN credit
             ELSE IF food.raised # "None" THEN food
             ELSE IF women.raised # "None" THEN women
             ELSE Returns([credit_access |-> credit.value,
                           food_security |-> food.value,
                           women_agency |-> women.value])

\* The functions an invocation of generate_insights has entered, in order.
generate_insights_calls(d) ==
    IF HasEmptyAttr(d) /\ ~Empty(d) /\ d.kind = "DataFrame"
    THEN <<"generate_insights", "calculate_credit_access_metrics",
           "analyze_agriculture_output", "assess_women_inclusion">>
    ELSE <<"generate_insights">>

---------------------------------------------------------------------------
\* data_processing/bias_checks.py

\* A message: the words of its template and the values formatted into it.
Msg(words, vals) == [words |-> words, vals |-> vals]

\* format(q, ".3f"): q in thousandths, rounded to nearest.  The ratios that
\* arise have denominators without the factor 16, so no tie is ever rounded.
Fmt3(q) ==
    [fmt |-> ".3f", nan |-> IsNaN(q),
     thousandths |-> IF IsNaN(q) THEN 0
                     ELSE (2000 * q.num + q.den) \div (2 * q.den)]

\* A dict is a set of <<key, value>> pairs.
HasKey(dict, k) == \E kv \in dict : kv[1] = k

Lookup(dict, k) == (CHOOSE kv \in dict : kv[1] = k)[2]

\* groups[0][protected_attribute]: the group's value, or the fault of the lookup.
GroupValue(groups, protected_attribute) ==
    IF Len(groups) = 0 THEN Raises("IndexError", <<"list index out of range">>)
    ELSE IF ~HasKey(groups[1], protected_attribute)
    THEN Raises("KeyError", <<"'", protected_attribute, "'">>)
    ELSE Returns(Lookup(groups[1], protected_attribute))

\* statistical_parity_diff > threshold
ExceedsOrEquals(diff, threshold) == FracLe(threshold, diff)

Exceeds(diff, threshold) == FracGt(diff, threshold)

\* df[mask][target_column].mean(): NaN when no row is selected.
GroupRateRaising(target, mask) ==
    IF MaskSum(mask) = 0 THEN Raises("ZeroDivisionError", <<"division by zero">>)
    ELSE Returns(Mean(Select(target, mask)))

GroupRate(target, mask) == Returns(Mean(Select(target, mask)))

\* statistical_parity_diff = abs(privileged_rate - unprivileged_rate)
StatisticalParityDiffSigned(privileged_rate, unprivileged_rate) ==
    FracSub(privileged_rate, unprivileged_rate)

StatisticalParityDiff(privileged_rate, unprivileged_rate) ==
    FracAbs(FracSub(privileged_rate, unprivileged_rate))

OutcomeCheck(d, protected_attribute, privileged_groups, unprivileged_groups, target_column, threshold) ==
    LET pv == GroupValue(privileged_groups, protected_attribute)
        uv == GroupValue(unprivileged_groups, protected_attribute)
        privileged_mask == EqMask(d.col[protected_attribute], pv.value)
        unprivileged_mask == EqMask(d.col[protected_attribute], uv.value)
        pr == GroupRate(d.col[target_column], privileged_mask)
        ur == GroupRate(d.col[target_column], unprivileged_mask)
        privileged_rate == pr.value
        unprivileged_rate == ur.value
        statistical_parity_diff == StatisticalParityDiff(privileged_rate, unprivileged_rate)
        biased == Exceeds(statistical_parity_diff, threshold)
    IN  IF pv.raised # "None" THEN pv
        ELSE IF uv.raised # "None" THEN uv
        ELSE IF pr.raised # "None" THEN pr
        ELSE IF ur.raised # "None" THEN ur
        ELSE Returns(
            [has_bias |-> biased,
             demographic_parity |->
                 [privileged_rate |-> privileged_rate,
                  unprivileged_rate |-> unprivileged_rate],
             equalized_odds |-> PyNone,
             statistical_parity_difference |-> statistical_parity_diff,
             message |->
                 IF biased
                 THEN Msg(<<"Significant", "bias", "detected.", "Statistical",
                            "parity", "difference:", "{}", "(threshold:", "{})">>,
                          <<Fmt3(statistical_parity_diff), threshold>>)
                 ELSE Msg(<<"No", "significant", "bias", "detected.",
                            "Statistical", "parity", "difference:", "{}">>,
                          <<Fmt3(statistical_parity_diff)>>)])

\* value_counts(normalize=True): the frequency of each distinct value.
ValueCounts(s) ==
    [v \in Range(s) |-> Frac(Cardinality({i \in DOMAIN s : s[i] = v}), Len(s))]

\* The largest / smallest of the frequencies vc (not empty).
FreqMax(vc) ==
    vc[CHOOSE v \in DOMAIN vc : \A w \in DOMAIN vc : FracLe(vc[w], vc[v])]

FreqMin(vc) ==
    vc[CHOOSE v \in DOMAIN vc : \A w \in DOMAIN vc : FracLe(vc[v], vc[w])]

\* max_diff = value_counts.max() - value_counts.min()
MaxDiffNoMin(value_counts) == FreqMax(value_counts)

MaxDiff(value_counts) == FracSub(FreqMax(value_counts), FreqMin(value_counts))

DemographicCheck(d, protected_attribute, threshold) ==
    LET value_counts == ValueCounts(d.col[protected_attribute])
        max_diff == MaxDiff(value_counts)
        blank == [has_bias |-> FALSE,
                  demographic_parity |-> PyNone,
                  equalized_odds |-> PyNone,
                  statistical_parity_difference |-> PyNone,
                  message |-> Msg(<<>>, <<>>)]
    IN  IF Cardinality(DOMAIN value_counts) > 1
        THEN IF Exceeds(max_diff, threshold)
             THEN Returns([blank EXCEPT
                      !.has_bias = TRUE,
                      !.message = Msg(<<"Potential", "demographic", "imbalance",
                                        "detected.", "Max", "difference:", "{}">>,
                                      <<Fmt3(max_diff)>>)])
             ELSE Returns([blank EXCEPT
                      !.message = Msg(<<"No", "significant", "demographic",
                                        "imbalance", "detected">>, <<>>)])
        ELSE Returns(blank)

\* target_column and target_column in df.columns
TargetUsable(d, target_column) ==
    /\ target_column.given
    /\ target_column.name # ""
    /\ target_column.name \in Columns(d)

\* except Exception as e: the soft report.
CatchNothing(outcome) == outcome

CatchAll(outcome) ==
    IF outcome.raised = "None" THEN outcome
    ELSE Returns([has_bias |-> FALSE,
                  message |-> Msg(<<"Error", "during", "bias", "checking:", "{}">>,
                                  <<outcome.value.str>>)])

\* privileged_groups / unprivileged_groups when None is passed.
DefaultGroups(groups, protected_attribute, v) ==
    IF groups.given THEN groups.list ELSE <<{<<protected_attribute, v>>}>>

check_for_bias(d, a) ==
    IF Empty(d)
    THEN Returns([has_bias |-> FALSE,
                  message |-> Msg(<<"Cannot", "check", "bias", "on", "empty",
                                    "dataset">>, <<>>)])
    ELSE IF a.protected_attribute \notin Columns(d)
    THEN Returns([has_bias |-> FALSE,
                  message |-> Msg(<<"Protected", "attribute", "'{}'", "not", "in",
                                    "dataset">>, <<a.protected_attribute>>)])
    ELSE LET privileged_groups ==
                 DefaultGroups(a.privileged_groups, a.protected_attribute, 1)
             unprivileged_groups ==
                 DefaultGroups(a.unprivileged_groups, a.protected_attribute, 0)
         IN  CatchAll(
                 IF TargetUsable(d, a.target_column)
                 THEN OutcomeCheck(d, a.protected_attribute, privileged_groups,
                                   unprivileged_groups, a.target_column.name,
                                   a.threshold)
                 ELSE DemographicCheck(d, a.protected_attribute, a.threshold))

---------------------------------------------------------------------------
\* data_ingestion/validate_data.py
\*
\* The cells of raw data: a number, a missing value (None / NaN / NaT), an
\* infinity, or a string.  The dict handed to validate_data maps each name to
\* its cells; `object` tells a column handed over as an object-typed array of
\* numbers (its inferred type is numeric) from a plain list.

NumCell(i) == [k |-> "num", v |-> Frac(i, 1), s |-> ""]

NanCell == [k |-> "nan", v |-> NaN, s |-> ""]

InfCell == [k |-> "inf", v |-> NaN, s |-> ""]

StrCell(t) == [k |-> "str", v |-> NaN, s |-> t]

\* isnull()
IsNull(c) == c.k = "nan"

\* The column is of a numeric dtype: numbers only, not held as objects.
IsNumericColumn(column) ==
    ~column.object /\ \A i \in DOMAIN column.cells : column.cells[i].k # "str"

\* infer_objects().dtype differs from the dtype: objects that are all numbers.
TypeMismatch(column) ==
    /\ column.object
    /\ Len(column.cells) > 0
    /\ \A i \in DOMAIN column.cells : column.cells[i].k # "str"

\* The order of the keys of the dict, hence of the columns of the table.
KeyOrder == <<"col1", "col2">>

\* The keys of `keys` in dict order.
InOrder(keys) == SelectSeq(KeyOrder, LAMBDA c : c \in keys)

EmptyDataFrame == [kind |-> "DataFrame", n |-> 0, col |-> <<>>]

\* df[col].replace([inf, -inf], nan) on the numeric columns.
ReplaceInf(column) ==
    IF IsNumericColumn(column)
    THEN [column EXCEPT !.cells =
             [i \in DOMAIN column.cells |->
                 IF column.cells[i].k = "inf" THEN NanCell ELSE column.cells[i]]]
    ELSE column

\* if not data: return pd.DataFrame()  -- before any check of the columns.
EmptyDictReturns(data) == DOMAIN data.col = {}

validate_data(data, a) ==
    IF data.kind # "dict"
    THEN Raises("TypeError", <<"Input data must be a dictionary">>)
    ELSE IF EmptyDictReturns(data)
    THEN Returns(EmptyDataFrame)
    ELSE LET names == DOMAIN data.col
             lens == {Len(data.col[c].cells) : c \in names}
             required == IF a.required_columns.given
                         THEN Range(a.required_columns.list) ELSE {}
             missing_cols == required \ names
             mismatched == InOrder({c \in names : TypeMismatch(data.col[c])})
             missing_count ==
                 Sum([j \in 1..Len(InOrder(names)) |->
                         Cardinality({i \in DOMAIN data.col[InOrder(names)[j]].cells :
                                         IsNull(data.col[InOrder(names)[j]].cells[i])})])
         IN  IF Cardinality(lens) > 1
             THEN Raises("ValueError", <<"Invalid data structure: ",
                                         "All arrays must be of the same length">>)
             ELSE IF missing_cols # {}
             THEN Raises("ValueError", <<"Missing required columns: ", missing_cols>>)
             ELSE IF a.strict_types /\ mismatched # <<>>
             THEN Raises("ValueError", <<"Data type mismatch for column: ",
                                         Head(mismatched)>>)
             ELSE IF missing_count > 0 /\ ~a.allow_missing
             THEN Raises("ValueError", <<"Missing values found in the data. ",
                                         "Total missing values: ", missing_count>>)
             ELSE Returns([kind |-> "DataFrame",
                           n |-> CHOOSE l \in lens : TRUE,
                           col |-> [c \in names |-> ReplaceInf(data.col[c])]])

---------------------------------------------------------------------------
\* data_ingestion/data_transformers.py
\*
\* The table handed to preprocess_data holds cells; a column is numeric when
\* it holds no string.

Strategies == {"ffill", "bfill", "mean", "median", "drop"}

\* The indices before / after i whose cell is not missing.
Before(cells, i) == {j \in DOMAIN cells : j < i /\ ~IsNull(cells[j])}

After(cells, i) == {j \in DOMAIN cells : j > i /\ ~IsNull(cells[j])}

\* df.ffill(): a missing cell takes the last value before it, if any.
Ffill(cells) ==
    [i \in DOMAIN cells |->
        IF IsNull(cells[i]) /\ Before(cells, i) # {}
        THEN cells[CHOOSE j \in Before(cells, i) : \A l \in Before(cells, i) : l <= j]
        ELSE cells[i]]

\* df.bfill(): a missing cell takes the first value after it, if any.
Bfill(cells) ==
    [i \in DOMAIN cells |->
        IF IsNull(cells[i]) /\ After(cells, i) # {}
        THEN cells[CHOOSE j \in After(cells, i) : \A l \in After(cells, i) : j <= l]
        ELSE cells[i]]

IsNumericCells(cells) == \A i \in DOMAIN cells : cells[i].k \in {"num", "nan"}

\* The numbers of a numeric column, missing cells skipped.
Numbers(cells) ==
    LET kept == SelectSeq(cells, LAMBDA c : ~IsNull(c))
    IN  [i \in DOMAIN kept |-> kept[i].v.num]

\* fillna(stat) on a numeric column; a NaN statistic fills nothing.
FillWith(cells, stat) ==
    IF ~IsNumericCells(cells) \/ IsNaN(stat) THEN cells
    ELSE [i \in DOMAIN cells |->
             IF IsNull(cells[i]) THEN [k |-> "num", v |-> stat, s |-> ""]
             ELSE cells[i]]

\* The rows kept by a mask, in every column.
KeepRows(d, keep) ==
    LET mask == [i \in 1..d.n |-> i \in keep]
    IN  [d EXCEPT !.n = Cardinality(keep),
                  !.col = [c \in DOMAIN d.col |-> Select(d.col[c], mask)]]

\* df.dropna(): the rows without a missing cell.
Dropna(d) ==
    KeepRows(d, {i \in 1..d.n : \A c \in DOMAIN d.col : ~IsNull(d.col[c][i])})

\* The handle_missing strategies (one of Strategies).
FillMissing(d, handle_missing) ==
    CASE handle_missing = "ffill" ->
             [d EXCEPT !.col = [c \in DOMAIN d.col |-> Ffill(d.col[c])]]
      [] handle_missing = "bfill" ->
             [d EXCEPT !.col = [c \in DOMAIN d.col |-> Bfill(d.col[c])]]
      [] handle_missing = "mean" ->
             [d EXCEPT !.col = [c \in DOMAIN d.col |->
                  FillWith(d.col[c], Mean(Numbers(d.col[c])))]]
      [] handle_missing = "median" ->
             [d EXCEPT !.col = [c \in DOMAIN d.col |->
                  FillWith(d.col[c], Median(Numbers(d.col[c])))]]
      [] handle_missing = "drop" -> Dropna(d)

\* pd.to_datetime(errors='coerce') of a cell of strings: a date, or NaT.
ToDatetime(c) ==
    CASE c.k = "str" /\ c.s = "2023-01-01" -> [k |-> "date", v |-> NaN, s |-> c.s]
      [] c.k = "str" /\ c.s # "2023-01-01" -> NanCell
      [] c.k = "nan" -> NanCell
      [] c.k = "date" -> c

\* pd.to_numeric(errors='coerce') of a cell: a number, or NaN.
ToNumeric(c) ==
    CASE c.k = "num" -> c
      [] c.k = "nan" -> NanCell
      [] c.k = "str" /\ c.s = "7" -> NumCell(7)
      [] c.k = "str" /\ c.s # "7" -> NanCell

\* Date conversion: pd.to_datetime over the date columns that exist.
ConvertDates(d, names) ==
    IF ~names.given THEN d
    ELSE [d EXCEPT !.col = [c \in DOMAIN d.col |->
             IF c \in Range(names.list)
             THEN [i \in DOMAIN d.col[c] |-> ToDatetime(d.col[c][i])]
             ELSE d.col[c]]]

\* Numeric conversion: pd.to_numeric over the numeric columns that exist.
ConvertNumbers(d, names) ==
    IF ~names.given THEN d
    ELSE [d EXCEPT !.col = [c \in DOMAIN d.col |->
             IF c \in Range(names.list)
             THEN [i \in DOMAIN d.col[c] |-> ToNumeric(d.col[c][i])]
             ELSE d.col[c]]]

\* df.drop_duplicates(): the first of each group of equal rows.
DropDuplicates(d) ==
    KeepRows(d, {i \in 1..d.n :
                    ~\E j \in 1..(i - 1) : \A c \in DOMAIN d.col : d.col[c][j] = d.col[c][i]})

\* if df.empty: return df  -- before the strategy is looked at.
EmptyTableReturns(d) == Empty(d)

preprocess_data(d, a) ==
    IF d.kind # "DataFrame"
    THEN Raises("TypeError", <<"Input must be a pandas DataFrame">>)
    ELSE IF EmptyTableReturns(d)
    THEN Returns(d)
    ELSE IF a.handle_missing \notin Strategies
    THEN Raises("ValueError", <<"Invalid handle_missing strategy: ", a.handle_missing,
                                ". Choose from: 'ffill', 'bfill', 'mean', 'median', 'drop'">>)
    ELSE LET filled == FillMissing(d, a.handle_missing)
             dated == ConvertDates(filled, a.date_columns)
             numbered == ConvertNumbers(dated, a.numeric_columns)
         IN  Returns(IF a.drop_duplicates THEN DropDuplicates(numbered) ELSE numbered)

\* The steps an invocation of preprocess_data has run, in order.
preprocess_data_steps(d, a) ==
    IF d.kind # "DataFrame" \/ EmptyTableReturns(d) \/ a.handle_missing \notin Strategies
    THEN <<"preprocess_data">>
    ELSE <<"preprocess_data", "handle_missing">>
         \o (IF a.date_columns.given /\ a.date_columns.list # <<>>
             THEN <<"date_columns">> ELSE <<>>)
         \o (IF a.numeric_columns.given /\ a.numeric_columns.list # <<>>
             THEN <<"numeric_columns">> ELSE <<>>)
         \o (IF a.drop_duplicates THEN <<"drop_duplicates">> ELSE <<>>)

---------------------------------------------------------------------------
\* One invocation.

CreditCols == <<"credit_approved", "loan_amount">>

\* Rows the tables handed to generate_insights are made of.
GIRowPool ==
    {[credit_approved |-> 1, loan_amount |-> MaxVal, agriculture_output |-> MaxVal,
      gender |-> 0, decision_making |-> 5, is_leader |-> 1],
     [credit_approved |-> 0, loan_amount |-> 0, agriculture_output |-> 1,
      gender |-> 1, decision_making |-> 2, is_leader |-> 0],
     [credit_approved |-> 1, loan_amount |-> 1, agriculture_output |-> 0,
      gender |-> 0, decision_making |-> 2, is_leader |-> 0]}

GICols ==
    {"credit_approved", "loan_amount", "agriculture_output", "gender",
     "decision_making", "is_leader"}

\* Tables of up to MaxRowsGI pool rows, with any subset of the columns.
GITables ==
    UNION {{[kind |-> "DataFrame", n |-> n,
             col |-> [c \in cs |-> [i \in 1..n |-> rows[i][c]]]] :
            rows \in [1..n -> GIRowPool], cs \in SUBSET GICols} :
           n \in 0..MaxRowsGI}

\* Objects that are not a DataFrame: of n elements, and no columns.
NonTables ==
    {[kind |-> k, n |-> n, col |-> <<>>] :
     k \in {"NoneType", "list", "dict", "Series"}, n \in 0..MaxRowsGI}

BiasCols == <<"gender", "outcome">>

\* The table of the documented example of check_for_bias.
BiasScenario ==
    [kind |-> "DataFrame", n |-> 4,
     col |-> [gender |-> <<0, 0, 1, 1>>, outcome |-> <<0, 1, 0, 1>>]]

GroupArgs ==
    {[given |-> FALSE, list |-> <<>>],
     [given |-> TRUE, list |-> <<>>],
     [given |-> TRUE, list |-> <<{<<"region", 1>>}>>]}
    \cup {[given |-> TRUE, list |-> <<{<<"gender", v>>}>>] : v \in {0, 1, 2}}

TargetArgs ==
    {[given |-> FALSE, name |-> ""]}
    \cup {[given |-> TRUE, name |-> t] : t \in {"", "outcome", "income"}}

Thresholds == {Frac(0, 1), Frac(1, 5), Frac(1, 2)}

BiasArgs ==
    [protected_attribute : {"gender", "region"},
     privileged_groups : GroupArgs,
     unprivileged_groups : GroupArgs,
     target_column : TargetArgs,
     threshold : Thresholds]

AgriCols == <<"agriculture_output">>

DateCells == {StrCell("2023-01-01"), StrCell("bad"), NanCell}

ValueCells == {NumCell(1), NumCell(3), NanCell, StrCell("7")}

\* Columns `date` and `value`, each present or not, of n rows.
PreColumns(n) ==
    {dc @@ vc : dc \in {<<>>} \cup {("date" :> c) : c \in [1..n -> DateCells]},
                vc \in {<<>>} \cup {("value" :> c) : c \in [1..n -> ValueCells]}}

\* The inputs of preprocess_data: tables of up to MaxRowsPre rows, and a list.
PreTables ==
    UNION {{[kind |-> "DataFrame", n |-> n, col |-> c] : c \in PreColumns(n)} :
           n \in 0..MaxRowsPre}
    \cup {[kind |-> "list", n |-> 0, col |-> <<>>]}

PreprocessArgs ==
    [handle_missing : Strategies \cup {"bogus"},
     date_columns :
         {[given |-> FALSE, list |-> <<>>], [given |-> TRUE, list |-> <<"date">>],
          [given |-> TRUE, list |-> <<"when">>]},
     numeric_columns :
         {[given |-> FALSE, list |-> <<>>], [given |-> TRUE, list |-> <<"value">>],
          [given |-> TRUE, list |-> <<"amount">>]},
     drop_duplicates : BOOLEAN]

RawCells == {NumCell(1), NanCell, InfCell, StrCell("a")}

\* A value of the data dict: a list of up to MaxCells cells, or a non-empty
\* object-typed array of numbers.
RawColumns ==
    UNION {{[object |-> FALSE, cells |-> c] : c \in [1..n -> RawCells]} \cup
           {[object |-> TRUE, cells |-> c] : c \in [1..n -> RawCells \ {StrCell("a")}]} :
           n \in 0..MaxCells}
    \ {[object |-> TRUE, cells |-> <<>>]}

\* The inputs of validate_data: dicts over the keys col1, col2, and a list.
RawData ==
    UNION {{[kind |-> "dict", n |-> Cardinality(ks), col |-> c] : c \in [ks -> RawColumns]} :
           ks \in SUBSET {"col1", "col2"}}
    \cup {[kind |-> "list", n |-> 0, col |-> <<>>]}

ValidateArgs ==
    [required_columns :
         {[given |-> FALSE, list |-> <<>>], [given |-> TRUE, list |-> <<>>],
          [given |-> TRUE, list |-> <<"col1">>],
          [given |-> TRUE, list |-> <<"col1", "col3">>]},
     allow_missing : BOOLEAN,
     strict_types : BOOLEAN]

WomenCols == <<"gender", "decision_making", "is_leader">>

\* The table of the documented example of assess_women_inclusion.
WomenScenario ==
    [kind |-> "DataFrame", n |-> 4,
     col |-> [gender |-> <<0, 0, 1, 1>>, decision_making |-> <<5, 4, 3, 2>>,
              is_leader |-> <<1, 0, 1, 0>>]]

Init ==
    /\ pc = "call"
    /\ result = NoValue
    /\ ran = <<>>
    /\ \/ /\ fn = "calculate_credit_access_metrics"
          /\ df \in Tables(CreditCols, MaxRows)
          /\ args = NoArgs
       \/ /\ fn = "analyze_agriculture_output"
          /\ df \in Tables(AgriCols, MaxRows)
          /\ args = NoArgs
       \/ /\ fn = "assess_women_inclusion"
          /\ df \in Tables(WomenCols, MaxRows) \cup {WomenScenario}
          /\ args = NoArgs
       \/ /\ fn = "generate_insights"
          /\ df \in GITables \cup NonTables
          /\ args = NoArgs
       \/ /\ fn = "validate_data"
          /\ df \in RawData
          /\ args \in ValidateArgs
       \/ /\ fn = "preprocess_data"
          /\ df \in PreTables
          /\ args \in PreprocessArgs
       \/ /\ fn = "check_for_bias"
          /\ df \in Tables(BiasCols, MaxRows) \cup {BiasScenario}
          /\ args \in BiasArgs

CallCredit ==
    /\ pc = "call"
    /\ fn = "calculate_credit_access_metrics"
    /\ result' = calculate_credit_access_metrics(df)
    /\ ran' = <<fn>>
    /\ pc' = "done"
    /\ UNCHANGED <<fn, df, args>>

CallAgriculture ==
    /\ pc = "call"
    /\ fn = "analyze_agriculture_output"
    /\ result' = analyze_agriculture_output(df)
    /\ ran' = <<fn>>
    /\ pc' = "done"
    /\ UNCHANGED <<fn, df, args>>

CallWomen ==
    /\ pc = "call"
    /\ fn = "assess_women_inclusion"
    /\ result' = assess_women_inclusion(df)
    /\ ran' = <<fn>>
    /\ pc' = "done"
    /\ UNCHANGED <<fn, df, args>>

CallGenerateInsights ==
    /\ pc = "call"
    /\ fn = "generate_insights"
    /\ result' = generate_insights(df)
    /\ ran' = generate_insights_calls(df)
    /\ pc' = "done"
    /\ UNCHANGED <<fn, df, args>>

CallCheckForBias ==
    /\ pc = "call"
    /\ fn = "check_for_bias"
    /\ result' = check_for_bias(df, args)
    /\ ran' = <<fn>>
    /\ pc' = "done"
    /\ UNCHANGED <<fn, df, args>>

CallValidateData ==
    /\ pc = "call"
    /\ fn = "validate_data"
    /\ result' = validate_data(df, args)
    /\ ran' = <<fn>>
    /\ pc' = "done"
    /\ UNCHANGED <<fn, df, args>>

CallPreprocessData ==
    /\ pc = "call"
    /\ fn = "preprocess_data"
    /\ result' = preprocess_data(df, args)
    /\ ran' = preprocess_data_steps(df, args)
    /\ pc' = "done"
    /\ UNCHANGED <<fn, df, args>>

Next ==
    \/ CallCredit
    \/ CallAgriculture
    \/ CallWomen
    \/ CallGenerateInsights
    \/ CallCheckForBias
    \/ CallValidateData
    \/ CallPreprocessData

Spec == Init /\ [][Next]_vars

---------------------------------------------------------------------------
\* Properties.

Done(f) == pc = "done" /\ fn = f

Returned == result.raised = "None"

InUnit(q) == FracLe(Zero, q) /\ FracLe(q, One)

CreditPre ==
    /\ Done("calculate_credit_access_metrics")
    /\ df.n > 0
    /\ {"credit_approved", "loan_amount"} \subseteq Columns(df)
    /\ Range(df.col["credit_approved"]) \subseteq {0, 1}
    /\ \A v \in Range(df.col["loan_amount"]) : v >= 0

\* C1: for a table of n > 0 rows with credit_approved in {0,1} and
\* loan_amount >= 0, calculate_credit_access_metrics returns
\* total_approved + total_rejected = total_applications = n, the rates are
\* a/n and (n-a)/n with a the number of rows approved, and they add up to 1.
C1_CreditTotalsAndRates ==
    CreditPre =>
        LET m == result.value
            a == Cardinality({i \in 1..df.n : df.col["credit_approved"][i] = 1})
        IN  /\ Returned
            /\ m.total_approved + m.total_rejected = m.total_applications
            /\ m.total_applications = df.n
            /\ m.total_approved = a
            /\ FracEq(m.credit_approval_rate, Frac(a, df.n))
            /\ FracEq(m.rejection_rate, Frac(df.n - a, df.n))
            /\ FracEq(FracAdd(m.credit_approval_rate, m.rejection_rate), One)

C1_Witness ==
    /\ CreditPre
    /\ result.value.total_approved > 0
    /\ result.value.total_rejected > 0

WomenPre ==
    /\ Done("assess_women_inclusion")
    /\ "gender" \in Columns(df)
    /\ Range(df.col["gender"]) \subseteq {0, 1}

\* C2: for a table whose gender values are all 0 or 1, assess_women_inclusion
\* returns women_participation_rate in [0,1] and gender_balance_score =
\* 1 - 2*|rate - 1/2| in [0,1]; the score is 1 exactly when the rate is 1/2
\* (for a table with rows: when exactly half the rows are women), and it is
\* 0 when the rows are all women or all men.
C2_GenderBalance ==
    WomenPre =>
        LET m == result.value
            r == m.women_participation_rate
            g == m.gender_balance_score
            w == Cardinality({i \in 1..df.n : df.col["gender"][i] = 0})
        IN  /\ Returned
            /\ InUnit(r)
            /\ InUnit(g)
            /\ FracEq(g, FracSub(One, FracScale(FracAbs(FracSub(r, Half)), 2)))
            /\ FracEq(g, One) <=> FracEq(r, Half)
            /\ df.n > 0 => (FracEq(g, One) <=> 2 * w = df.n)
            /\ (w = df.n \/ w = 0) => FracEq(g, Zero)

C2_Witness ==
    /\ WomenPre
    /\ df.n >= 2
    /\ FracEq(result.value.gender_balance_score, One)

AgriPre ==
    /\ Done("analyze_agriculture_output")
    /\ "agriculture_output" \in Columns(df)
    /\ df.n > 0
    /\ \A v \in Range(df.col["agriculture_output"]) : v >= 0

Required(f) ==
    CASE f = "calculate_credit_access_metrics" -> {"credit_approved", "loan_amount"}
      [] f = "analyze_agriculture_output" -> {"agriculture_output"}
      [] f = "assess_women_inclusion" -> {"gender"}

NotFound(c) ==
    CASE c = "credit_approved" -> "credit_approved column not found"
      [] c = "loan_amount" -> "loan_amount column not found"
      [] c = "agriculture_output" -> "agriculture_output column not found"
      [] c = "gender" -> "gender column not found"

MetricFns ==
    {"calculate_credit_access_metrics", "analyze_agriculture_output",
     "assess_women_inclusion"}

MissingPre ==
    /\ pc = "done"
    /\ fn \in MetricFns
    /\ Required(fn) \ Columns(df) # {}

\* C4: a metric function called on a table that lacks one of its required
\* columns returns (never raises) a result whose only key is error, with the
\* value "<name> column not found" for a missing column <name>; when both
\* credit columns are missing the name is credit_approved.
C4_MissingColumnError ==
    MissingPre =>
        /\ Returned
        /\ DOMAIN result.value = {"error"}
        /\ result.value.error \in {NotFound(c) : c \in Required(fn) \ Columns(df)}
        /\ "credit_approved" \in Required(fn) \ Columns(df)
               => result.value.error = NotFound("credit_approved")

C4_Witness ==
    /\ MissingPre
    /\ fn = "calculate_credit_access_metrics"
    /\ Columns(df) = {}
    /\ df.n > 0
    /\ result.value.error = "credit_approved column not found"

\* An empty table, by its shape: no rows or no columns.
NoCells == df.n = 0 \/ DOMAIN df.col = {}

\* C5 (as claimed): generate_insights raises its declared invalid-input error
\* (ValueError or TypeError, from its own guards) for every empty table and
\* for every input that is not a table, before any metric function runs.
C5_InvalidInputRaised ==
    (Done("generate_insights") /\ (df.kind # "DataFrame" \/ NoCells)) =>
        /\ result.raised \in {"ValueError", "TypeError"}
        /\ ran = <<"generate_insights">>

HasWord(msg, w) == \E i \in DOMAIN msg.words : msg.words[i] = w

SoftKeys == {"has_bias", "message"}

\* C6: check_for_bias on an empty table, whatever the other arguments,
\* returns a report of has_bias = FALSE and a message containing "empty";
\* on a non-empty table without the protected attribute it returns has_bias =
\* FALSE and a message naming the attribute; neither raises, neither carries
\* disparity statistics.
C6_BiasSoftFailure ==
    Done("check_for_bias") =>
        /\ NoCells =>
               /\ Returned
               /\ DOMAIN result.value = SoftKeys
               /\ result.value.has_bias = FALSE
               /\ HasWord(result.value.message, "empty")
        /\ (~NoCells /\ args.protected_attribute \notin DOMAIN df.col) =>
               /\ Returned
               /\ DOMAIN result.value = SoftKeys
               /\ result.value.has_bias = FALSE
               /\ HasWord(result.value.message, "Protected")
               /\ HasWord(result.value.message, "not")
               /\ result.value.message.vals = <<args.protected_attribute>>

C6_Witness ==
    /\ Done("check_for_bias")
    /\ df.n > 0
    /\ DOMAIN df.col = {}
    /\ args.privileged_groups = [given |-> TRUE, list |-> <<>>]
    /\ args.protected_attribute = "region"
    /\ HasWord(result.value.message, "empty")

\* The arguments of a check_for_bias call, read off the call itself.
ProtAttr == args.protected_attribute

TargetGiven ==
    /\ args.target_column.given
    /\ args.target_column.name # ""
    /\ args.target_column.name \in DOMAIN df.col

\* Whether a group argument resolves to a value, and the value (default v).
Resolves(g) == ~g.given \/ (g.list # <<>> /\ \E kv \in g.list[1] : kv[1] = ProtAttr)

ValueOf(g, v) ==
    IF g.given THEN (CHOOSE kv \in g.list[1] : kv[1] = ProtAttr)[2] ELSE v

PrivValue == ValueOf(args.privileged_groups, 1)

UnprivValue == ValueOf(args.unprivileged_groups, 0)

RowsOf(v) == {i \in 1..df.n : df.col[ProtAttr][i] = v}

RECURSIVE SumAt(_, _)
SumAt(s, I) ==
    IF I = {} THEN 0 ELSE LET i == CHOOSE j \in I : TRUE IN s[i] + SumAt(s, I \ {i})

\* The mean of the target column over the rows of group value v.
RateOf(v) == Frac(SumAt(df.col[args.target_column.name], RowsOf(v)), Cardinality(RowsOf(v)))

OutcomeMode ==
    /\ Done("check_for_bias")
    /\ ~NoCells
    /\ ProtAttr \in DOMAIN df.col
    /\ TargetGiven
    /\ Resolves(args.privileged_groups)
    /\ Resolves(args.unprivileged_groups)

OutcomePre == OutcomeMode /\ RowsOf(PrivValue) # {} /\ RowsOf(UnprivValue) # {}

\* C7: in outcome-based mode with both groups non-empty, privileged_rate and
\* unprivileged_rate are the means of the target column over the rows of the
\* privileged and the unprivileged group value (defaults 1 and 0),
\* statistical_parity_difference is |privileged_rate - unprivileged_rate|, and
\* has_bias holds exactly when that difference is strictly greater than the
\* threshold.  On gender [0,0,1,1], outcome [0,1,0,1], threshold 0.2 the rates
\* are 0.5 and 0.5, the difference 0 and has_bias FALSE.
C7_OutcomeParity ==
    OutcomePre =>
        LET r == result.value
            p == RateOf(PrivValue)
            u == RateOf(UnprivValue)
            diff == FracAbs(FracSub(p, u))
        IN  /\ Returned
            /\ FracEq(r.demographic_parity.privileged_rate, p)
            /\ FracEq(r.demographic_parity.unprivileged_rate, u)
            /\ FracEq(r.statistical_parity_difference, diff)
            /\ r.has_bias <=> diff.num * args.threshold.den > args.threshold.num * diff.den
            /\ FracEq(diff, args.threshold) => ~r.has_bias
            /\ (/\ df = BiasScenario
                /\ ~args.privileged_groups.given
                /\ ~args.unprivileged_groups.given
                /\ args.threshold = Frac(1, 5)) =>
                   /\ FracEq(r.demographic_parity.privileged_rate, Half)
                   /\ FracEq(r.demographic_parity.unprivileged_rate, Half)
                   /\ FracEq(r.statistical_parity_difference, Zero)
                   /\ ~r.has_bias

C7_Witness ==
    /\ OutcomePre
    /\ FracEq(result.value.statistical_parity_difference, Half)
    /\ args.threshold = Frac(1, 2)
    /\ FracEq(result.value.demographic_parity.privileged_rate, Half)
    /\ ~result.value.has_bias

\* C8: in outcome-based mode, when no row belongs to the privileged or to the
\* unprivileged group, check_for_bias does not raise: it returns the full
\* report, in which the rate of each empty group is NaN.
C8_EmptyGroupRateNaN ==
    (OutcomeMode /\ (RowsOf(PrivValue) = {} \/ RowsOf(UnprivValue) = {})) =>
        /\ Returned
        /\ "demographic_parity" \in DOMAIN result.value
        /\ RowsOf(PrivValue) = {} =>
               IsNaN(result.value.demographic_parity.privileged_rate)
        /\ RowsOf(UnprivValue) = {} =>
               IsNaN(result.value.demographic_parity.unprivileged_rate)
        /\ IsNaN(result.value.statistical_parity_difference)
        /\ ~result.value.has_bias

C8_Witness ==
    /\ OutcomeMode
    /\ RowsOf(PrivValue) = {}
    /\ RowsOf(UnprivValue) # {}
    /\ IsNaN(result.value.demographic_parity.privileged_rate)
    /\ ~IsNaN(result.value.demographic_parity.unprivileged_rate)

DemographicMode ==
    /\ Done("check_for_bias")
    /\ ~NoCells
    /\ ProtAttr \in DOMAIN df.col
    /\ ~TargetGiven

\* The number of rows holding value v of the protected attribute.
CountOf(v) == Cardinality(RowsOf(v))

Distinct == {df.col[ProtAttr][i] : i \in 1..df.n}

\* max frequency - min frequency > threshold, over counts: (cmax - cmin)/n.
Imbalanced ==
    /\ Cardinality(Distinct) > 1
    /\ \E hi \in Distinct, lo \in Distinct :
           /\ \A v \in Distinct : CountOf(lo) <= CountOf(v) /\ CountOf(v) <= CountOf(hi)
           /\ (CountOf(hi) - CountOf(lo)) * args.threshold.den
                  > args.threshold.num * df.n

\* C9: in demographic-imbalance mode (no target column, or one that is not a
\* column), has_bias is TRUE with the imbalance message exactly when the
\* protected attribute has more than one distinct value and max frequency -
\* min frequency is strictly greater than the threshold; otherwise has_bias
\* is FALSE and no imbalance is reported (the message says there is none, or,
\* for a single distinct value, is blank).  No disparity statistic is set.
C9_DemographicImbalance ==
    DemographicMode =>
        LET r == result.value IN
        /\ Returned
        /\ r.has_bias <=> Imbalanced
        /\ HasWord(r.message, "Potential") <=> Imbalanced
        /\ (~Imbalanced /\ Cardinality(Distinct) > 1) =>
               r.message.words = <<"No", "significant", "demographic",
                                   "imbalance", "detected">>
        /\ Cardinality(Distinct) <= 1 => r.message.words = <<>>
        /\ r.statistical_parity_difference = PyNone
        /\ r.demographic_parity = PyNone

C9_Witness ==
    /\ DemographicMode
    /\ args.target_column = [given |-> TRUE, name |-> "income"]
    /\ Cardinality(Distinct) = 2
    /\ result.value.has_bias
    /\ args.threshold = Frac(1, 5)

\* A supplied group list that is empty, or whose first entry has no key for
\* the protected attribute, in outcome-based mode: the indexing faults.
GroupFault ==
    /\ Done("check_for_bias")
    /\ ~NoCells
    /\ ProtAttr \in DOMAIN df.col
    /\ TargetGiven
    /\ ~Resolves(args.privileged_groups) \/ ~Resolves(args.unprivileged_groups)

\* C10: check_for_bias never raises on a table: it always returns a report
\* with has_bias and message, and when the computation faults (a supplied
\* group list that is empty or whose first entry lacks the protected
\* attribute) the report is has_bias = FALSE with a message that carries the
\* error's text.
C10_BiasNeverRaises ==
    Done("check_for_bias") =>
        /\ Returned
        /\ SoftKeys \subseteq DOMAIN result.value
        /\ GroupFault =>
               /\ DOMAIN result.value = SoftKeys
               /\ result.value.has_bias = FALSE
               /\ HasWord(result.value.message, "Error")
               /\ result.value.message.vals \in
                      {<<<<"list index out of range">>>>, <<<<"'", ProtAttr, "'">>>>}

C10_Witness ==
    /\ GroupFault
    /\ args.privileged_groups = [given |-> TRUE, list |-> <<>>]
    /\ Returned
    /\ result.value.message.vals = <<<<"list index out of range">>>>

\* The table d without the columns outside cs.
Restrict(d, cs) == [d EXCEPT !.col = [c \in DOMAIN d.col \cap cs |-> d.col[c]]]

GIPre ==
    /\ Done("generate_insights")
    /\ df.kind = "DataFrame"
    /\ df.n > 0
    /\ DOMAIN df.col # {}

HasError(v) == "error" \in DOMAIN v

\* C11: generate_insights on a non-empty table returns exactly the keys
\* credit_access, food_security and women_agency; a group's value is an
\* {error: ...} value exactly when one of that group's required columns is
\* missing, and every group's value is what its own function returns on the
\* table, also on the table stripped of the other groups' columns.
C11_InsightGroupsIndependent ==
    GIPre =>
        LET r == result.value IN
        /\ Returned
        /\ DOMAIN r = {"credit_access", "food_security", "women_agency"}
        /\ HasError(r.credit_access)
               <=> Required("calculate_credit_access_metrics") \ DOMAIN df.col # {}
        /\ HasError(r.food_security)
               <=> Required("analyze_agriculture_output") \ DOMAIN df.col # {}
        /\ HasError(r.women_agency)
               <=> Required("assess_women_inclusion") \ DOMAIN df.col # {}
        /\ r.credit_access = calculate_credit_access_metrics(df).value
        /\ r.credit_access = calculate_credit_access_metrics(
                                 Restrict(df, {"credit_approved", "loan_amount"})).value
        /\ r.food_security = analyze_agriculture_output(df).value
        /\ r.food_security = analyze_agriculture_output(
                                 Restrict(df, {"agriculture_output"})).value
        /\ r.women_agency = assess_women_inclusion(df).value
        /\ r.women_agency = assess_women_inclusion(
                                Restrict(df, {"gender", "decision_making", "is_leader"})).value

C11_Witness ==
    /\ GIPre
    /\ HasError(result.value.credit_access)
    /\ ~HasError(result.value.food_security)
    /\ ~HasError(result.value.women_agency)
    /\ result.value.women_agency.total_women = 1

WomenOptPre == Done("assess_women_inclusion") /\ "gender" \in DOMAIN df.col

\* The rows of women.
WomenRows == {i \in 1..df.n : df.col["gender"][i] = 0}

\* C12: women_decision_making_score is present exactly when the
\* decision_making column exists and some row has gender 0, and is the mean of
\* decision_making over those rows; women_leadership_rate and
\* women_leaders_count are present exactly when is_leader exists and some row
\* has gender 0, the count being the women with is_leader = 1, the rate the
\* count over total_women, and 0 <= count <= total_women.  On gender
\* [0,0,1,1], decision_making [5,4,3,2], is_leader [1,0,1,0] they are 4.5
\* and 0.5.
C12_WomenOptionalMetrics ==
    WomenOptPre =>
        LET m == result.value
            W == WomenRows
            leaders == {i \in W : df.col["is_leader"][i] = 1}
        IN  /\ Returned
            /\ "women_decision_making_score" \in DOMAIN m
                   <=> ("decision_making" \in DOMAIN df.col /\ W # {})
            /\ "women_decision_making_score" \in DOMAIN m =>
                   FracEq(m.women_decision_making_score,
                          Frac(SumAt(df.col["decision_making"], W), Cardinality(W)))
            /\ "women_leadership_rate" \in DOMAIN m
                   <=> ("is_leader" \in DOMAIN df.col /\ W # {})
            /\ "women_leaders_count" \in DOMAIN m
                   <=> ("is_leader" \in DOMAIN df.col /\ W # {})
            /\ "women_leaders_count" \in DOMAIN m =>
                   /\ m.women_leaders_count = Cardinality(leaders)
                   /\ m.total_women = Cardinality(W)
                   /\ FracEq(m.women_leadership_rate,
                             Frac(Cardinality(leaders), Cardinality(W)))
                   /\ 0 <= m.women_leaders_count
                   /\ m.women_leaders_count <= m.total_women
            /\ df = WomenScenario =>
                   /\ FracEq(m.women_decision_making_score, Frac(9, 2))
                   /\ FracEq(m.women_leadership_rate, Half)
                   /\ FracEq(m.women_participation_rate, Half)

C12_Witness ==
    /\ WomenOptPre
    /\ df = WomenScenario
    /\ FracEq(result.value.women_decision_making_score, Frac(9, 2))
    /\ result.value.women_leaders_count = 1

\* The names required of a validate_data call that are no key of the data.
MissingRequired ==
    {c \in Range(args.required_columns.list) : c \notin DOMAIN df.col}

\* C13 (as claimed): validate_data raises for every dict in which a required
\* column is not a column of the data, the empty dict included; it returns a
\* table only when every required column is present.
C13_MissingRequiredRaises ==
    (Done("validate_data") /\ df.kind = "dict" /\ MissingRequired # {}) =>
        result.raised # "None"

\* C14 (as claimed): preprocess_data raises the configuration error at once,
\* for every table (empty or not), when handle_missing is none of ffill,
\* bfill, mean, median, drop: nothing is returned and no step has run.
C14_InvalidStrategyRaises ==
    (/\ Done("preprocess_data")
     /\ df.kind = "DataFrame"
     /\ args.handle_missing \notin {"ffill", "bfill", "mean", "median", "drop"}) =>
        /\ result.raised = "ValueError"
        /\ ran = <<"preprocess_data">>

\* A check_for_bias call in outcome-based mode: the target column is usable.
OutcomeTarget ==
    /\ Done("check_for_bias")
    /\ ~NoCells
    /\ ProtAttr \in DOMAIN df.col
    /\ TargetGiven

\* The group definition in effect: the one given, else the default of value v.
Effective(g, v) ==
    IF g.given THEN g ELSE [given |-> TRUE, list |-> <<{<<ProtAttr, v>>}>>]

\* The call with the two group definitions exchanged.
SwappedArgs ==
    [args EXCEPT !.privileged_groups = Effective(args.unprivileged_groups, 0),
                 !.unprivileged_groups = Effective(args.privileged_groups, 1)]

\* The same float: equal, or NaN both.
SameFloat(a, b) == FracEq(a, b) \/ (IsNaN(a) /\ IsNaN(b))

\* C15: in outcome-based mode the call with the privileged and unprivileged
\* group definitions swapped returns the same has_bias and the same
\* statistical_parity_difference, with privileged_rate and unprivileged_rate
\* exchanged (and reports a fault exactly when the call itself does); and
\* has_bias is monotone in the threshold: FALSE at t implies FALSE at every
\* t' >= t.
C15_SymmetricAndMonotone ==
    OutcomeTarget =>
        LET r == result.value
            sw == check_for_bias(df, SwappedArgs)
            s == sw.value
            full(v) == "statistical_parity_difference" \in DOMAIN v
        IN  /\ Returned
            /\ sw.raised = "None"
            /\ s.has_bias = r.has_bias
            /\ full(s) <=> full(r)
            /\ full(r) =>
                   /\ SameFloat(s.statistical_parity_difference,
                                r.statistical_parity_difference)
                   /\ SameFloat(s.demographic_parity.privileged_rate,
                                r.demographic_parity.unprivileged_rate)
                   /\ SameFloat(s.demographic_parity.unprivileged_rate,
                                r.demographic_parity.privileged_rate)
            /\ \A t \in Thresholds :
                   (~r.has_bias /\ FracLe(args.threshold, t)) =>
                       ~check_for_bias(df, [args EXCEPT !.threshold = t]).value.has_bias

C15_Witness ==
    /\ OutcomePre
    /\ result.value.has_bias
    /\ FracLt(result.value.demographic_parity.privileged_rate,
              result.value.demographic_parity.unprivileged_rate)
    /\ FracEq(result.value.demographic_parity.unprivileged_rate, Half)
    /\ PrivValue # UnprivValue

====
